---------------------------- MODULE Spec2Model ----------------------------
(***************************************************************************)
(* Model of the cricket odds scraper (src/scraper.py) and of the endpoint  *)
(* that serves its snapshot (src/api.py).                                  *)
(*                                                                         *)
(* Spec     the polling loop of main(): session establishment, run_once    *)
(*          (lobby, discovery, concurrent event workers), atomic_write,    *)
(*          sleep; a file reader and the serving endpoint run beside it.   *)
(* SpecIds  collect_event_ids applied to bounded JSON documents.           *)
(***************************************************************************)
EXTENDS Integers, Sequences, FiniteSets, TLC

(***************************************************************************)
(* Bounds of the model.                                                    *)
(***************************************************************************)
\* polling cycles the loop is followed for
MaxCycles == 2
\* event ids the discovery source offers in one response
MaxIds == 3
\* nesting depth of the JSON documents given to collect_event_ids
MaxDepth == 2
\* rows of the lobby table given to scrape_lobby
MaxRows == 3
\* back or lay entries of a market row given to _read_ladder_cells
MaxSteps == 3
\* priced entries of one side of a lobby cell given to _best_from_cell
MaxEntries == 3
\* length of the titles given to slugify_title
MaxLen == 4

(***************************************************************************)
(* Text.  A Python str is a sequence of one-character strings, so that     *)
(* regular expressions, str() and comparison are computed character by     *)
(* character.                                                              *)
(***************************************************************************)
Digits == <<"0", "1", "2", "3", "4", "5", "6", "7", "8", "9">>

UpperAlpha == <<"A", "B", "C", "D", "E", "F", "G", "H", "I", "J", "K", "L", "M",
                "N", "O", "P", "Q", "R", "S", "T", "U", "V", "W", "X", "Y", "Z">>

LowerAlpha == <<"a", "b", "c", "d", "e", "f", "g", "h", "i", "j", "k", "l", "m",
                "n", "o", "p", "q", "r", "s", "t", "u", "v", "w", "x", "y", "z">>

\* the characters the model uses, in code point order
Alphabet == <<"-", ".">> \o Digits \o UpperAlpha \o <<"_">> \o LowerAlpha

Range(f) == {f[i] : i \in DOMAIN f}

Max(a, b) == IF a >= b THEN a ELSE b
Min(a, b) == IF a <= b THEN a ELSE b

IsDigit(c) == c \in Range(Digits)

CharOrd(c) == CHOOSE i \in DOMAIN Alphabet : Alphabet[i] = c

\* str.lower() on one character
LowerChar(c) ==
    IF c \in Range(UpperAlpha)
    THEN LowerAlpha[CHOOSE i \in DOMAIN UpperAlpha : UpperAlpha[i] = c]
    ELSE c

\* str.lower()
Lower(s) == [i \in DOMAIN s |-> LowerChar(s[i])]

\* Python's < on str: the first differing code point decides, a proper
\* prefix is smaller
RECURSIVE StrLess(_, _)
StrLess(a, b) ==
    IF b = <<>> THEN FALSE
    ELSE IF a = <<>> THEN TRUE
    ELSE IF Head(a) # Head(b) THEN CharOrd(Head(a)) < CharOrd(Head(b))
    ELSE StrLess(Tail(a), Tail(b))

\* str() of a non-negative int
RECURSIVE NatToStr(_)
NatToStr(n) ==
    IF n < 10 THEN <<Digits[n + 1]>>
    ELSE NatToStr(n \div 10) \o <<Digits[(n % 10) + 1]>>

\* str() of an int
IntToStr(n) == IF n < 0 THEN <<"-">> \o NatToStr(-n) ELSE NatToStr(n)

(***************************************************************************)
(* JSON values as json.loads / r.json() returns them.  One record shape    *)
(* for every type: t is the Python type, i the number of an int, float or  *)
(* bool, s the text of a str, kids the items of a dict (a function from    *)
(* key to value) or of a list (a sequence).                                *)
(***************************************************************************)
JNull == [t |-> "NoneType", i |-> 0, s |-> <<>>, kids |-> <<>>]
JInt(n) == [t |-> "int", i |-> n, s |-> <<>>, kids |-> <<>>]
JBool(b) == [t |-> "bool", i |-> IF b THEN 1 ELSE 0, s |-> <<>>, kids |-> <<>>]
\* a float with integral value n, as in 12345.0
JFloat(n) == [t |-> "float", i |-> n, s |-> <<>>, kids |-> <<>>]
JStr(s) == [t |-> "str", i |-> 0, s |-> s, kids |-> <<>>]
JObj(f) == [t |-> "dict", i |-> 0, s |-> <<>>, kids |-> f]
JArr(q) == [t |-> "list", i |-> 0, s |-> <<>>, kids |-> q]

\* the value that stands for "no id" (Python's None returned by _maybe_id)
None == <<>>

\* str(value) for the values a JSON document holds; the text of a dict or a
\* list starts with a bracket, which the model writes "_"
PyStr(v) ==
    CASE v.t = "str" -> v.s
      [] v.t = "int" -> IntToStr(v.i)
      [] v.t = "float" -> IntToStr(v.i) \o <<".", "0">>
      [] v.t = "bool" -> IF v.i = 1 THEN <<"T", "r", "u", "e">>
                         ELSE <<"F", "a", "l", "s", "e">>
      [] v.t = "NoneType" -> <<"N", "o", "n", "e">>
      [] OTHER -> <<"_">>

\* re.fullmatch(r"\d{5,}", s)
FullMatchDigits5(s) == Len(s) >= 5 /\ \A i \in DOMAIN s : IsDigit(s[i])

\* isinstance(v, (str, int)): bool is a subclass of int
IsStrOrInt(v) == v.t \in {"str", "int", "bool"}

(***************************************************************************)
(* Event id discovery (src/scraper.py, "API - event id discovery").        *)
(***************************************************************************)
\* Mutation of _maybe_id: without str(value), only a str is an id.
maybe_id_str_only(value) ==
    IF value.t # "str" THEN None
    ELSE IF FullMatchDigits5(value.s) THEN value.s ELSE None

\* _maybe_id: the text of value when it is five or more digits, else None
maybe_id(value) ==
    IF value.t = "NoneType" THEN None
    ELSE IF FullMatchDigits5(PyStr(value)) THEN PyStr(value) ELSE None

\* the names of line 219, compared with k.lower()
IdFieldNames ==
    { <<"e", "v", "e", "n", "t", "i", "d">>,
      <<"e", "v", "e", "n", "t", "_", "i", "d">>,
      <<"e", "v", "e", "n", "t", "_", "i", "d", "_", "p", "k">>,
      <<"e", "v", "e", "n", "t", "p", "k">>,
      <<"e", "v", "e", "n", "t", "p", "k", "i", "d">>,
      <<"i", "d">> }

K_id == <<"i", "d">>
K_eventId == <<"e", "v", "e", "n", "t", "I", "d">>
K_event_id == <<"e", "v", "e", "n", "t", "_", "i", "d">>
K_event == <<"e", "v", "e", "n", "t">>
K_events == <<"e", "v", "e", "n", "t", "s">>

\* dict.get(k): the value, or None when the key is missing
DictGet(d, k) == IF k \in DOMAIN d.kids THEN d.kids[k] ELSE JNull

\* truth value of a JSON value, as Python's "or" tests it
Truthy(v) ==
    CASE v.t = "NoneType" -> FALSE
      [] v.t \in {"int", "float", "bool"} -> v.i # 0
      [] v.t = "str" -> v.s # <<>>
      [] OTHER -> DOMAIN v.kids # {}

\* line 227: v.get("id") if "id" in v else v.get("eventId") or v.get("event_id")
InnerId(v) ==
    IF K_id \in DOMAIN v.kids THEN DictGet(v, K_id)
    ELSE IF Truthy(DictGet(v, K_eventId)) THEN DictGet(v, K_eventId)
    ELSE DictGet(v, K_event_id)

\* the ids that _collect_ids_recursive adds to the bucket for node
RECURSIVE collect_ids_recursive(_)
collect_ids_recursive(node) ==
    IF node.t = "dict" THEN
        LET d == node.kids
            keyIds == {maybe_id(JStr(k)) : k \in DOMAIN d} \ {None}
            fieldIds(k) ==
                IF Lower(k) \in IdFieldNames /\ IsStrOrInt(d[k])
                THEN {maybe_id(d[k])} \ {None} ELSE {}
            eventIds(k) ==
                IF Lower(k) = K_event /\ d[k].t = "dict"
                THEN {maybe_id(InnerId(d[k]))} \ {None} ELSE {}
        IN  keyIds \cup
            UNION {fieldIds(k) \cup eventIds(k) \cup collect_ids_recursive(d[k])
                   : k \in DOMAIN d}
    ELSE IF node.t = "list" THEN
        UNION {collect_ids_recursive(node.kids[i]) : i \in DOMAIN node.kids}
    ELSE {}

\* the set ids of collect_event_ids before it is sorted (lines 240-250)
IdBucket(api_json) ==
    collect_ids_recursive(api_json) \cup
    ( IF api_json.t = "dict" /\ K_events \in DOMAIN api_json.kids
         /\ api_json.kids[K_events].t = "dict"
      THEN {maybe_id(JStr(k)) : k \in DOMAIN api_json.kids[K_events].kids} \ {None}
      ELSE {} )

\* the orders in which iterating a Python set may yield its elements
IterOrders(S) ==
    {q \in [1..Cardinality(S) -> S] : \A i, j \in 1..Cardinality(S) : q[i] = q[j] => i = j}

\* sorted() on a sequence of str: insertion by Python's < on str
RECURSIVE InsertSorted(_, _)
InsertSorted(x, q) ==
    IF q = <<>> THEN <<x>>
    ELSE IF StrLess(x, Head(q)) THEN <<x>> \o q
    ELSE <<Head(q)>> \o InsertSorted(x, Tail(q))

RECURSIVE PySorted(_)
PySorted(q) == IF q = <<>> THEN <<>> ELSE InsertSorted(Head(q), PySorted(Tail(q)))

\* Mutation of collect_event_ids: list(ids) without sorted().
collect_event_ids_unsorted(api_json, iter) == iter

\* collect_event_ids: iter is the order in which the set ids is iterated
collect_event_ids(api_json, iter) == PySorted(iter)

(***************************************************************************)
(* slugify_title and the key of an event page.                             *)
(***************************************************************************)
Whitespace == {" "}

SlugChars == Range(Digits) \cup Range(UpperAlpha) \cup Range(LowerAlpha) \cup {"-"}

\* str.strip(chars) from the left and from the right
RECURSIVE LStrip(_, _)
LStrip(s, chars) ==
    IF s # <<>> /\ Head(s) \in chars THEN LStrip(Tail(s), chars) ELSE s

RECURSIVE RStrip(_, _)
RStrip(s, chars) ==
    IF s # <<>> /\ s[Len(s)] \in chars THEN RStrip(SubSeq(s, 1, Len(s) - 1), chars) ELSE s

Strip(s, chars) == RStrip(LStrip(s, chars), chars)

\* length of the longest prefix of s whose characters satisfy
\* (c \in cls) = member
RECURSIVE RunLen(_, _, _)
RunLen(s, cls, member) ==
    IF s # <<>> /\ ((Head(s) \in cls) = member)
    THEN 1 + RunLen(Tail(s), cls, member) ELSE 0

\* re.sub of every maximal run, at least min long, of characters in cls
\* (member) or outside cls (~member) by one "-"
RECURSIVE SubRuns(_, _, _, _)
SubRuns(s, cls, member, min) ==
    IF s = <<>> THEN <<>>
    ELSE LET n == RunLen(s, cls, member)
         IN  IF n >= min
             THEN <<"-">> \o SubRuns(SubSeq(s, n + 1, Len(s)), cls, member, min)
             ELSE IF n > 0
             THEN SubSeq(s, 1, n) \o SubRuns(SubSeq(s, n + 1, Len(s)), cls, member, min)
             ELSE <<Head(s)>> \o SubRuns(Tail(s), cls, member, min)

\* Mutation of slugify_title: the runs of dashes are collapsed before the other
\* characters are replaced.
slugify_title_collapse_first(title) ==
    LET t1 == SubRuns(Strip(title, Whitespace), Whitespace, TRUE, 1)
        t2 == SubRuns(t1, {"-"}, TRUE, 2)
        t3 == SubRuns(t2, SlugChars, FALSE, 1)
    IN  Strip(t3, {"-"})

slugify_title(title) ==
    LET t1 == SubRuns(Strip(title, Whitespace), Whitespace, TRUE, 1)
        t2 == SubRuns(t1, SlugChars, FALSE, 1)
        t3 == SubRuns(t2, {"-"}, TRUE, 2)
    IN  Strip(t3, {"-"})

\* title.split(" - ", 1)[0]
RECURSIVE BeforeSeparator(_)
BeforeSeparator(s) ==
    IF s = <<>> THEN <<>>
    ELSE IF Len(s) >= 3 /\ SubSeq(s, 1, 3) = <<" ", "-", " ">> THEN <<>>
    ELSE <<Head(s)>> \o BeforeSeparator(Tail(s))

\* lines 457-463 of parse_event_page: the mapping key of a title
EventKey(title) ==
    IF title = None THEN <<>>
    ELSE LET base == Strip(BeforeSeparator(title), Whitespace)
         IN  IF base # <<>> THEN slugify_title(base) ELSE <<>>

(***************************************************************************)
(* State.                                                                  *)
(***************************************************************************)
VARIABLES
    cfg,            \* the configuration load_cfg returned
    pc,             \* where main() stands
    open_failures,  \* failed attempts of the call of open_context in progress
    interval,       \* main's interval, set once the session is open
    sleep_for,      \* argument of the asyncio.sleep main is in
    cycle,          \* number of the current iteration of "while True"
    lobby,          \* run_once's lobby
    api_failures,   \* failed attempts of the call of fetch_eventtype_api in progress
                    \* (the state of tenacity's retry; 4 once the call has raised)
    api_json,       \* the document the discovery source returned
    ids,            \* collect_event_ids(api_json)
    tasks,          \* per cycle, the worker(eid) tasks gather was given
    sem,            \* per cycle, the value of that run_once's Semaphore
    events_store,   \* per cycle, that run_once's events_store
    live_details,   \* per cycle, that run_once's live_details
    payload,        \* the payload run_once returned in this cycle
    fs,             \* the files: path -> content
    log_last,       \* the line main wrote with log() in this cycle
    exit_reason,    \* why main() ended
    reader_saw,     \* what a reader of the outfile read last
    api_response,   \* what GET /live.json answered last
    call,           \* the arguments of the function that is applied on its own
    ret             \* what that function returned

vars == <<cfg, pc, open_failures, interval, sleep_for, cycle, lobby, api_failures,
          api_json, ids, tasks, sem, events_store, live_details, payload, fs,
          log_last, exit_reason, reader_saw, api_response, call, ret>>

fnVars == <<call, ret>>

loopVars == <<cfg, pc, open_failures, interval, sleep_for, cycle, lobby, api_failures,
              api_json, ids, payload, fs, log_last, exit_reason>>

workerVars == <<tasks, sem, events_store, live_details>>

Cycles == 1..MaxCycles

\* the function f with f[k] = v added or replaced: d[k] = v on a dict
Put(f, k, v) == [x \in (DOMAIN f) \cup {k} |-> IF x = k THEN v ELSE f[x]]

EmptyDict == <<>>

(***************************************************************************)
(* Configuration and files.                                                *)
(***************************************************************************)
\* cfg["io"]["outfile"], cfg["io"]["tempfile"] of DEFAULT_CFG
CfgOutfile == "data/live.json"
CfgTempfile == "data/.live.tmp"
\* OUTFILE of api.py
OUTFILE == "data/live_cricket.json"

Paths == {CfgOutfile, CfgTempfile, OUTFILE}

\* cfg["site"]["event_base"], shortened
EventBase == <<"e", "v", "e", "n", "t", "/", "4", "/">>

\* stop_after_attempt(3) of open_context, stop_after_attempt(4) of
\* fetch_eventtype_api, the floor of the interval
OpenContextAttempts == 3
FetchApiAttempts == 4
IntervalFloor == 3

\* the configurations the model is run with: at most two events a cycle,
\* fetched one at a time with an interval below the floor, or two at a time
\* with the default interval
Configs ==
    { [event_concurrency |-> 1, max_events |-> 2, interval_seconds |-> 1],
      [event_concurrency |-> 2, max_events |-> 2, interval_seconds |-> 20] }

(***************************************************************************)
(* Records.                                                                *)
(***************************************************************************)
\* EventSnapshot, the fields the model follows (lines 93-102).  sessions and
\* result are what parse_event_page leaves in them (lines 454-455), which are
\* the defaults of the dataclass as well.
Snapshot(title, match_time, fancy, url) ==
    [title |-> title, match_time |-> match_time, fancy |-> fancy,
     sessions |-> <<>>, result |-> None, source_url |-> url]

\* EventSnapshot(source_url=url)
PlaceholderSnapshot(url) == Snapshot(None, None, <<>>, url)

UrlOf(eid) == EventBase \o eid

\* the entry worker stores in events_store (lines 511-533)
EventRecord(snap) ==
    [title |-> snap.title, match_time |-> snap.match_time, fancy |-> snap.fancy,
     sessions |-> snap.sessions, result |-> snap.result, source_url |-> snap.source_url]

\* the entry worker stores in live_details (lines 535-546)
LiveRecord(eid, snap) ==
    [event_id |-> eid, title |-> snap.title, match_time |-> snap.match_time,
     fancy |-> snap.fancy, sessions |-> snap.sessions, result |-> snap.result]

\* lines 555-560; fetched_at is the number of the cycle
Payload(c, lob, ev, ld) ==
    [fetched_at |-> c, lobby |-> lob, events |-> ev, live_details |-> ld]

NoPayload == Payload(0, <<>>, EmptyDict, EmptyDict)

\* a file: absent, opened for writing and not yet complete, or the complete
\* JSON text of a payload.  A payload is assembled once per cycle and is not
\* changed between its assembly and json.dump, so its text is named by its
\* fetched_at.
AbsentFile == [state |-> "absent", doc |-> 0]
PartialFile == [state |-> "partial", doc |-> 0]
CompleteFile(doc) == [state |-> "complete", doc |-> doc.fetched_at]
Unread == [state |-> "unread", doc |-> 0]

NoResponse == [status |-> 0, body |-> AbsentFile]

\* a task of gather is where its worker(eid) stands: "queued" at "async with
\* sem", "new_page" and "page" inside scrape_event_by_id before and after the
\* page is open, "done" when it returned, "raised" when an exception ended it
TaskStates == {"queued", "new_page", "page", "done", "raised"}

Finished == {"done", "raised"}

AllFinished(ts) == \A eid \in DOMAIN ts : ts[eid] \in Finished

\* The tasks, semaphore and dicts of a run_once that has returned are
\* referenced only by its tasks: once the last of them has ended, they are
\* gone.  cur is the number of the running cycle.
Kept(c, ts, cur, x, gone) == IF c < cur /\ AllFinished(ts[c]) THEN gone ELSE x

(***************************************************************************)
(* What the outside world may answer.                                      *)
(***************************************************************************)
T_A_v_B == <<"A", " ", "v", " ", "B">>

\* the same match as the event page may name it, with a market after " - "
T_Aa_v_B == <<"A", "a", " ", "v", " ", "B", " ", "-", " ", "X">>

\* a row of the fancy table as parse_event_page records it (lines 442-451),
\* the prices in hundredths
FancyRow == [name |-> <<"R", "u", "n", "s">>, no |-> 195, yes |-> 200]

\* what parse_event_page reads from an event page: the two spans of the
\* header and the rows of the fancy table.  A title of None is a page without
\* a header.  The match A v B is shown by two pages, one with the time of the
\* match and one with a fancy market.
Pages ==
    { [title |-> None, match_time |-> None, fancy |-> <<>>],
      [title |-> T_A_v_B, match_time |-> <<"1", "0", ":", "0", "0">>, fancy |-> <<>>],
      [title |-> T_A_v_B, match_time |-> None, fancy |-> <<FancyRow>>],
      [title |-> T_Aa_v_B, match_time |-> None, fancy |-> <<>>] }

\* the key parse_event_page returns with the snapshot, for each title
TitleKey == [t \in {shown.title : shown \in Pages} |-> EventKey(t)]

\* the lists scrape_lobby may return
LobbyResults == { <<>>, <<[match_id |-> slugify_title(T_A_v_B)]>> }

\* the n-th event id of the discovery source ("34848333" in the source)
EventIdOf(n) == IntToStr(34848330 + n)

\* a discovery response of the shape {"events": {"<id>": {}, ...}}
EventsDoc(n) ==
    JObj(K_events :> JObj([k \in {EventIdOf(i) : i \in 1..n} |-> JObj(EmptyDict)]))

\* the source offers no event or MaxIds events
ApiResponses == {EventsDoc(0), EventsDoc(MaxIds)}

\* ids[: cfg["scrape"]["max_events"]]
Picked(idList, max_events) == SubSeq(idList, 1, Min(Len(idList), max_events))

TypeOK ==
    /\ cfg \in Configs
    /\ pc \in {"open_context", "scrape_lobby", "fetch_eventtype_api", "gather",
               "atomic_write", "json_dump", "replace", "sleep", "exited",
               "collect_event_ids"}
    /\ open_failures \in 0..OpenContextAttempts
    /\ api_failures \in 0..FetchApiAttempts
    /\ cycle \in 0..MaxCycles
    /\ \A c \in Cycles : sem[c] \in 0..cfg.event_concurrency
    /\ \A c \in Cycles : \A eid \in DOMAIN tasks[c] : tasks[c][eid] \in TaskStates
    /\ \A p \in Paths : fs[p].state \in {"absent", "partial", "complete"}

Init ==
    /\ cfg \in Configs
    /\ pc = "open_context"
    /\ open_failures = 0
    /\ interval = 0
    /\ sleep_for = 0
    /\ cycle = 0
    /\ lobby = <<>>
    /\ api_failures = 0
    /\ api_json = JNull
    /\ ids = <<>>
    /\ tasks = [c \in Cycles |-> EmptyDict]
    /\ sem = [c \in Cycles |-> 0]
    /\ events_store = [c \in Cycles |-> EmptyDict]
    /\ live_details = [c \in Cycles |-> EmptyDict]
    /\ payload = NoPayload
    /\ fs = [p \in Paths |-> AbsentFile]
    /\ log_last = "none"
    /\ exit_reason = "none"
    /\ reader_saw = Unread
    /\ api_response = NoResponse
    /\ call = <<>>
    /\ ret = <<>>

\* The scraper takes a step only while no observation of another process is
\* held (see "The other processes").
Quiet == reader_saw = Unread /\ api_response = NoResponse

(***************************************************************************)
(* main(): session establishment and the polling loop.                     *)
(***************************************************************************)
\* the start of an iteration of "while True": run_once is entered with
\* fresh locals
BeginCycle ==
    /\ cycle' = cycle + 1
    /\ lobby' = <<>>
    /\ api_failures' = 0
    /\ log_last' = "none"
    /\ api_json' = JNull
    /\ ids' = <<>>
    /\ payload' = NoPayload
    /\ pc' = "scrape_lobby"
    /\ tasks' = [c \in Cycles |-> Kept(c, tasks, cycle + 1, tasks[c], EmptyDict)]
    /\ sem' = [c \in Cycles |-> Kept(c, tasks, cycle + 1, sem[c], 0)]
    /\ events_store' = [c \in Cycles |-> Kept(c, tasks, cycle + 1, events_store[c], EmptyDict)]
    /\ live_details' = [c \in Cycles |-> Kept(c, tasks, cycle + 1, live_details[c], EmptyDict)]

\* main() ends: the process and its memory are gone, the files stay
ProcessEnds(reason) ==
    /\ pc' = "exited"
    /\ exit_reason' = reason
    /\ api_failures' = 0
    /\ lobby' = <<>>
    /\ api_json' = JNull
    /\ ids' = <<>>
    /\ payload' = NoPayload
    /\ tasks' = [c \in Cycles |-> EmptyDict]
    /\ sem' = [c \in Cycles |-> 0]
    /\ events_store' = [c \in Cycles |-> EmptyDict]
    /\ live_details' = [c \in Cycles |-> EmptyDict]

\* "except Exception" of main (lines 589-591): log, then sleep
ScrapeError ==
    /\ log_last' = "Scrape error"
    /\ sleep_for' = interval
    /\ pc' = "sleep"

\* open_context returns: lines 574-577, then the first run_once
open_context_ok ==
    /\ Quiet
    /\ pc = "open_context"
    /\ interval' = Max(IntervalFloor, cfg.interval_seconds)
    /\ open_failures' = 0
    /\ BeginCycle
    /\ UNCHANGED <<cfg, sleep_for, fs, exit_reason, reader_saw, api_response>>
    /\ UNCHANGED fnVars

\* Mutation of open_context_fail: no retry, the first failure is fatal.
open_context_fail_no_retry ==
    /\ Quiet
    /\ pc = "open_context"
    /\ open_failures' = open_failures + 1
    /\ ProcessEnds("open_context")
    /\ UNCHANGED <<cfg, interval, sleep_for, cycle, fs, log_last, reader_saw,
                   api_response>>
    /\ UNCHANGED fnVars

\* an attempt of open_context raises: retried until the third failure, which
\* leaves main through its "finally"
open_context_fail ==
    /\ Quiet
    /\ pc = "open_context"
    /\ open_failures' = open_failures + 1
    /\ IF open_failures' = OpenContextAttempts
       THEN ProcessEnds("open_context")
       ELSE UNCHANGED <<pc, exit_reason, api_failures, lobby, api_json, ids, payload,
                        tasks, sem, events_store, live_details>>
    /\ UNCHANGED <<cfg, interval, sleep_for, cycle, fs, log_last, reader_saw,
                   api_response>>
    /\ UNCHANGED fnVars

\* scrape_lobby returns its rows (line 488)
scrape_lobby_ok ==
    /\ Quiet
    /\ pc = "scrape_lobby"
    /\ \E rows \in LobbyResults : lobby' = rows
    /\ pc' = "fetch_eventtype_api"
    /\ UNCHANGED <<cfg, open_failures, interval, sleep_for, cycle, api_failures,
                   api_json, ids, payload, fs, log_last, exit_reason, reader_saw,
                   api_response>>
    /\ UNCHANGED workerVars
    /\ UNCHANGED fnVars

\* Mutation of scrape_lobby_fail: main without its "except Exception".
scrape_lobby_fail_uncaught ==
    /\ Quiet
    /\ pc = "scrape_lobby"
    /\ ProcessEnds("exception")
    /\ UNCHANGED <<cfg, open_failures, interval, sleep_for, cycle, fs, log_last,
                   reader_saw, api_response>>
    /\ UNCHANGED fnVars

\* Mutation of scrape_lobby_fail: scrape_lobby inside the try of run_once, whose
\* "except Exception" logs the failure and lets the payload be assembled.
scrape_lobby_fail_in_try ==
    /\ Quiet
    /\ pc = "scrape_lobby"
    /\ log_last' = "API fetch/parsing error"
    /\ payload' = Payload(cycle, lobby, events_store[cycle], live_details[cycle])
    /\ pc' = "atomic_write"
    /\ UNCHANGED <<cfg, open_failures, interval, sleep_for, cycle, lobby, api_failures,
                   api_json, ids, fs, exit_reason, reader_saw, api_response>>
    /\ UNCHANGED workerVars
    /\ UNCHANGED fnVars

\* scrape_lobby raises: run_once does not catch it, main does
scrape_lobby_fail ==
    /\ Quiet
    /\ pc = "scrape_lobby"
    /\ ScrapeError
    /\ UNCHANGED <<cfg, open_failures, interval, cycle, lobby, api_failures, api_json,
                   ids, payload, fs, exit_reason, reader_saw, api_response>>
    /\ UNCHANGED workerVars
    /\ UNCHANGED fnVars

\* run_once builds the payload and returns it to main, which enters
\* atomic_write (lines 555-561, 581-582): no await in between
ReturnPayload ==
    /\ payload' = Payload(cycle, lobby, events_store[cycle], live_details[cycle])
    /\ pc' = "atomic_write"

\* Mutation of fetch_eventtype_api_fail: run_once without its "except Exception", the
\* exhausted retry reaches main.
fetch_eventtype_api_fail_uncaught ==
    /\ Quiet
    /\ pc = "fetch_eventtype_api"
    /\ api_failures' = api_failures + 1
    /\ IF api_failures' = FetchApiAttempts
       THEN ScrapeError
       ELSE UNCHANGED <<pc, sleep_for, log_last>>
    /\ UNCHANGED <<cfg, open_failures, interval, cycle, lobby, api_json, ids, payload,
                   fs, exit_reason, reader_saw, api_response>>
    /\ UNCHANGED workerVars
    /\ UNCHANGED fnVars

\* Mutation of fetch_eventtype_api_fail: the retry stops one attempt late.
fetch_eventtype_api_fail_one_more ==
    /\ Quiet
    /\ pc = "fetch_eventtype_api"
    /\ api_failures' = api_failures + 1
    /\ IF api_failures' = FetchApiAttempts + 1
       THEN ReturnPayload
       ELSE UNCHANGED <<pc, payload>>
    /\ UNCHANGED <<cfg, open_failures, interval, sleep_for, cycle, lobby, api_json,
                   ids, fs, log_last, exit_reason, reader_saw, api_response>>
    /\ UNCHANGED workerVars
    /\ UNCHANGED fnVars

\* an attempt of fetch_eventtype_api raises: retried until the fourth
\* failure, which run_once catches at line 552
fetch_eventtype_api_fail ==
    /\ Quiet
    /\ pc = "fetch_eventtype_api"
    /\ api_failures' = api_failures + 1
    /\ IF api_failures' = FetchApiAttempts
       THEN ReturnPayload
       ELSE UNCHANGED <<pc, payload>>
    /\ UNCHANGED <<cfg, open_failures, interval, sleep_for, cycle, lobby, api_json,
                   ids, fs, log_last, exit_reason, reader_saw, api_response>>
    /\ UNCHANGED workerVars
    /\ UNCHANGED fnVars

\* fetch_eventtype_api returns a document: the ids are collected, the
\* semaphore is made and gather starts one worker per picked id
\* (lines 498-506, 548)
fetch_eventtype_api_ok ==
    /\ Quiet
    /\ pc = "fetch_eventtype_api"
    /\ \E doc \in ApiResponses :
         \E iter \in IterOrders(IdBucket(doc)) :
            /\ api_json' = doc
            /\ ids' = collect_event_ids(doc, iter)
    /\ sem' = [sem EXCEPT ![cycle] = cfg.event_concurrency]
    /\ tasks' = [tasks EXCEPT ![cycle] =
                    [eid \in Range(Picked(ids', cfg.max_events)) |->
                        "queued"]]
    /\ pc' = "gather"
    /\ api_failures' = 0
    /\ UNCHANGED <<cfg, open_failures, interval, sleep_for, cycle, lobby,
                   payload, fs, log_last, exit_reason, reader_saw, api_response,
                   events_store, live_details>>
    /\ UNCHANGED fnVars

\* gather returns: every task of this cycle has returned
gather_return ==
    /\ Quiet
    /\ pc = "gather"
    /\ \A eid \in DOMAIN tasks[cycle] : tasks[cycle][eid] = "done"
    /\ ReturnPayload
    /\ UNCHANGED <<cfg, open_failures, interval, sleep_for, cycle, lobby, api_failures,
                   api_json, ids, fs, log_last, exit_reason, reader_saw, api_response>>
    /\ UNCHANGED workerVars
    /\ UNCHANGED fnVars

\* gather raises the exception of a task; the other tasks are not cancelled.
\* run_once catches it at line 552
gather_raise ==
    /\ Quiet
    /\ pc = "gather"
    /\ \E eid \in DOMAIN tasks[cycle] : tasks[cycle][eid] = "raised"
    /\ ReturnPayload
    /\ UNCHANGED <<cfg, open_failures, interval, sleep_for, cycle, lobby, api_failures,
                   api_json, ids, fs, log_last, exit_reason, reader_saw, api_response>>
    /\ UNCHANGED workerVars
    /\ UNCHANGED fnVars

(***************************************************************************)
(* atomic_write (lines 130-134), step by step: the steps are visible to    *)
(* the other processes that read the files.                                *)
(***************************************************************************)
\* Mutation of WriteTarget: the document is written straight to its destination.
WriteTarget_destination == CfgOutfile

\* the file json.dump writes to: tmp_path
WriteTarget == CfgTempfile

mainRest == <<cfg, open_failures, interval, cycle, lobby, api_failures, api_json, ids,
              payload, exit_reason, reader_saw, api_response>>

\* os.makedirs raises
makedirs_fail ==
    /\ Quiet
    /\ pc = "atomic_write"
    /\ ScrapeError
    /\ UNCHANGED <<mainRest, fs>>
    /\ UNCHANGED workerVars
    /\ UNCHANGED fnVars

\* open(tmp_path, "w") raises
open_tmp_fail ==
    /\ Quiet
    /\ pc = "atomic_write"
    /\ ScrapeError
    /\ UNCHANGED <<mainRest, fs>>
    /\ UNCHANGED workerVars
    /\ UNCHANGED fnVars

\* open(tmp_path, "w") creates or truncates the file
open_tmp_ok ==
    /\ Quiet
    /\ pc = "atomic_write"
    /\ fs' = [fs EXCEPT ![WriteTarget] = PartialFile]
    /\ pc' = "json_dump"
    /\ UNCHANGED <<mainRest, sleep_for, log_last>>
    /\ UNCHANGED workerVars
    /\ UNCHANGED fnVars

\* json.dump or the close of the file raises: the file stays incomplete
json_dump_fail ==
    /\ Quiet
    /\ pc = "json_dump"
    /\ ScrapeError
    /\ UNCHANGED <<mainRest, fs>>
    /\ UNCHANGED workerVars
    /\ UNCHANGED fnVars

\* json.dump wrote the whole payload and the file is closed
json_dump_ok ==
    /\ Quiet
    /\ pc = "json_dump"
    /\ fs' = [fs EXCEPT ![WriteTarget] = CompleteFile(payload)]
    /\ pc' = "replace"
    /\ UNCHANGED <<mainRest, sleep_for, log_last>>
    /\ UNCHANGED workerVars
    /\ UNCHANGED fnVars

\* Mutation of replace_fail: the destination is removed before the rename, which
\* then raises.
replace_fail_after_remove ==
    /\ Quiet
    /\ pc = "replace"
    /\ fs' = [fs EXCEPT ![CfgOutfile] = AbsentFile]
    /\ ScrapeError
    /\ UNCHANGED mainRest
    /\ UNCHANGED workerVars
    /\ UNCHANGED fnVars

\* os.replace raises
replace_fail ==
    /\ Quiet
    /\ pc = "replace"
    /\ ScrapeError
    /\ UNCHANGED <<mainRest, fs>>
    /\ UNCHANGED workerVars
    /\ UNCHANGED fnVars

\* os.replace(tmp_path, path), then the log line of 583-588 and the sleep
replace_ok ==
    /\ Quiet
    /\ pc = "replace"
    /\ fs' = [p \in Paths |->
                IF p = CfgOutfile THEN fs[CfgTempfile]
                ELSE IF p = CfgTempfile THEN AbsentFile
                ELSE fs[p]]
    /\ log_last' = "Wrote snapshot"
    /\ sleep_for' = interval
    /\ pc' = "sleep"
    /\ UNCHANGED mainRest
    /\ UNCHANGED workerVars
    /\ UNCHANGED fnVars

\* asyncio.sleep(interval) returns and the loop runs run_once again
sleep_done ==
    /\ Quiet
    /\ pc = "sleep"
    /\ cycle < MaxCycles
    /\ BeginCycle
    /\ UNCHANGED <<cfg, open_failures, interval, sleep_for, fs, exit_reason, reader_saw,
                   api_response>>
    /\ UNCHANGED fnVars

\* KeyboardInterrupt or cancellation of main's task: not an Exception, so
\* neither run_once nor main catches it
cancel ==
    /\ Quiet
    /\ pc # "exited"
    /\ ProcessEnds("cancelled")
    /\ UNCHANGED <<cfg, open_failures, interval, sleep_for, cycle, fs, log_last,
                   reader_saw, api_response>>
    /\ UNCHANGED fnVars

(***************************************************************************)
(* worker(eid) of cycle c (lines 508-546) around scrape_event_by_id        *)
(* (lines 465-480).  Tasks run only while main is suspended in an await.   *)
(***************************************************************************)
MainAwaits == pc \in {"scrape_lobby", "fetch_eventtype_api", "gather", "sleep"}

At(c, eid, at) == Quiet /\ MainAwaits /\ eid \in DOMAIN tasks[c] /\ tasks[c][eid] = at

SetTask(c, eid, t) == tasks' = [tasks EXCEPT ![c][eid] = t]

\* the task of eid ends as t, its slot is released and the dicts of its
\* cycle become ev and ld
EndTask(c, eid, t, ev, ld) ==
    LET ts == [tasks EXCEPT ![c][eid] = t]
    IN  /\ tasks' = [tasks EXCEPT ![c] = Kept(c, ts, cycle, ts[c], EmptyDict)]
        /\ sem' = [sem EXCEPT ![c] = Kept(c, ts, cycle, @ + 1, 0)]
        /\ events_store' = [events_store EXCEPT ![c] = Kept(c, ts, cycle, ev, EmptyDict)]
        /\ live_details' = [live_details EXCEPT ![c] = Kept(c, ts, cycle, ld, EmptyDict)]

\* "async with sem": a free slot is taken
acquire(c, eid) ==
    /\ At(c, eid, "queued")
    /\ sem[c] > 0
    /\ sem' = [sem EXCEPT ![c] = @ - 1]
    /\ SetTask(c, eid, "new_page")
    /\ UNCHANGED <<events_store, live_details, reader_saw, api_response>>
    /\ UNCHANGED loopVars
    /\ UNCHANGED fnVars

\* context.new_page() returns the page (line 467)
new_page_ok(c, eid) ==
    /\ At(c, eid, "new_page")
    /\ SetTask(c, eid, "page")
    /\ UNCHANGED <<sem, events_store, live_details, reader_saw, api_response>>
    /\ UNCHANGED loopVars
    /\ UNCHANGED fnVars

\* Mutation of new_page_fail: the slot taken with sem.acquire() is given back
\* only at the end of worker's body, not when an exception leaves it.
new_page_fail_slot_kept(c, eid) ==
    /\ At(c, eid, "new_page")
    /\ SetTask(c, eid, "raised")
    /\ UNCHANGED <<sem, events_store, live_details, reader_saw, api_response>>
    /\ UNCHANGED loopVars
    /\ UNCHANGED fnVars

\* context.new_page() raises, outside the try of scrape_event_by_id: the
\* exception leaves worker through "async with sem" and ends the task
new_page_fail(c, eid) ==
    /\ At(c, eid, "new_page")
    /\ EndTask(c, eid, "raised", events_store[c], live_details[c])
    /\ UNCHANGED <<reader_saw, api_response>>
    /\ UNCHANGED loopVars
    /\ UNCHANGED fnVars

\* Mutation of try_fail: the except branch leaves scrape_event_by_id without
\* page.close(); the slot is released while the page is still open.
try_fail_page_left_open(c, eid) ==
    /\ At(c, eid, "page")
    /\ sem' = [sem EXCEPT ![c] = @ + 1]
    /\ events_store' = [events_store EXCEPT ![c] =
                           Put(@, eid, EventRecord(PlaceholderSnapshot(UrlOf(eid))))]
    /\ UNCHANGED <<tasks, live_details, reader_saw, api_response>>
    /\ UNCHANGED loopVars
    /\ UNCHANGED fnVars

\* The awaits of the try (page.goto, page.wait_for_selector, parse_event_page,
\* lines 469-474) and of the finally (page.close, line 480) change nothing but
\* the task's own position and its pending return value, and the page is open
\* throughout: they are one step, taken when page.close ends.
\*
\* the body of the try raises at one of its awaits: "except Exception" (lines
\* 476-478) makes the placeholder the return value; page.close() returns, worker
\* stores the entry and leaves "async with sem" (lines 510-546)
try_fail(c, eid) ==
    /\ At(c, eid, "page")
    /\ EndTask(c, eid, "done",
               Put(events_store[c], eid, EventRecord(PlaceholderSnapshot(UrlOf(eid)))),
               live_details[c])
    /\ UNCHANGED <<reader_saw, api_response>>
    /\ UNCHANGED loopVars
    /\ UNCHANGED fnVars

\* Mutation of try_ok: worker without its "if key", the entry of a page without
\* title is stored in live_details under the empty key.
try_ok_no_key_test(c, eid) ==
    /\ At(c, eid, "page")
    /\ \E shown \in Pages :
         LET snap == Snapshot(shown.title, shown.match_time, shown.fancy, UrlOf(eid))
             key == TitleKey[shown.title]
         IN  EndTask(c, eid, "done",
                     Put(events_store[c], eid, EventRecord(snap)),
                     Put(live_details[c], key, LiveRecord(eid, snap)))
    /\ UNCHANGED <<reader_saw, api_response>>
    /\ UNCHANGED loopVars
    /\ UNCHANGED fnVars

\* Mutation of try_ok: worker keeps the entry live_details already has under
\* the key and sets only its event_id.
try_ok_keep_entry(c, eid) ==
    /\ At(c, eid, "page")
    /\ \E shown \in Pages :
         LET snap == Snapshot(shown.title, shown.match_time, shown.fancy, UrlOf(eid))
             key == TitleKey[shown.title]
         IN  EndTask(c, eid, "done",
                     Put(events_store[c], eid, EventRecord(snap)),
                     IF key = <<>> THEN live_details[c]
                     ELSE IF key \in DOMAIN live_details[c]
                     THEN [live_details[c] EXCEPT ![key].event_id = eid]
                     ELSE Put(live_details[c], key, LiveRecord(eid, snap)))
    /\ UNCHANGED <<reader_saw, api_response>>
    /\ UNCHANGED loopVars
    /\ UNCHANGED fnVars

\* the body of the try returns (key, snap); page.close() returns, worker
\* stores the entries and leaves "async with sem"
try_ok(c, eid) ==
    /\ At(c, eid, "page")
    /\ \E shown \in Pages :
         LET snap == Snapshot(shown.title, shown.match_time, shown.fancy, UrlOf(eid))
             key == TitleKey[shown.title]
         IN  EndTask(c, eid, "done",
                     Put(events_store[c], eid, EventRecord(snap)),
                     IF key # <<>>
                     THEN Put(live_details[c], key, LiveRecord(eid, snap))
                     ELSE live_details[c])
    /\ UNCHANGED <<reader_saw, api_response>>
    /\ UNCHANGED loopVars
    /\ UNCHANGED fnVars

\* page.close() raises in "finally", whatever the try did: the exception
\* replaces the return value and ends the task
close_fail(c, eid) ==
    /\ At(c, eid, "page")
    /\ EndTask(c, eid, "raised", events_store[c], live_details[c])
    /\ UNCHANGED <<reader_saw, api_response>>
    /\ UNCHANGED loopVars
    /\ UNCHANGED fnVars

(***************************************************************************)
(* The other processes.  What one of them reads is held for one step, in   *)
(* which the scraper does not move, so that every observation stands next  *)
(* to the state it was made in.                                            *)
(***************************************************************************)
\* a reader opens and reads the scraper's outfile
reader_read ==
    /\ Quiet
    /\ reader_saw' = fs[CfgOutfile]
    /\ UNCHANGED <<api_response>>
    /\ UNCHANGED loopVars
    /\ UNCHANGED workerVars
    /\ UNCHANGED fnVars

\* the reader is done with what it read
reader_done ==
    /\ reader_saw # Unread
    /\ reader_saw' = Unread
    /\ UNCHANGED <<api_response>>
    /\ UNCHANGED loopVars
    /\ UNCHANGED workerVars
    /\ UNCHANGED fnVars

\* GET /live.json of api.py (lines 8-14)
live_json ==
    /\ Quiet
    /\ api_response' =
         IF fs[OUTFILE].state = "absent"
         THEN [status |-> 503, body |-> AbsentFile]
         ELSE [status |-> 200, body |-> fs[OUTFILE]]
    /\ UNCHANGED <<reader_saw>>
    /\ UNCHANGED loopVars
    /\ UNCHANGED workerVars
    /\ UNCHANGED fnVars

\* the response has been sent
live_json_done ==
    /\ api_response # NoResponse
    /\ api_response' = NoResponse
    /\ UNCHANGED <<reader_saw>>
    /\ UNCHANGED loopVars
    /\ UNCHANGED workerVars
    /\ UNCHANGED fnVars

Next ==
    \/ open_context_ok
    \/ open_context_fail
    \/ scrape_lobby_ok
    \/ scrape_lobby_fail
    \/ fetch_eventtype_api_ok
    \/ fetch_eventtype_api_fail
    \/ gather_return
    \/ gather_raise
    \/ makedirs_fail
    \/ open_tmp_fail
    \/ open_tmp_ok
    \/ json_dump_fail
    \/ json_dump_ok
    \/ replace_fail
    \/ replace_ok
    \/ sleep_done
    \/ cancel
    \/ \E c \in Cycles : \E eid \in DOMAIN tasks[c] : acquire(c, eid)
    \/ \E c \in Cycles : \E eid \in DOMAIN tasks[c] : new_page_ok(c, eid)
    \/ \E c \in Cycles : \E eid \in DOMAIN tasks[c] : new_page_fail(c, eid)
    \/ \E c \in Cycles : \E eid \in DOMAIN tasks[c] : try_ok(c, eid)
    \/ \E c \in Cycles : \E eid \in DOMAIN tasks[c] : try_fail(c, eid)
    \/ \E c \in Cycles : \E eid \in DOMAIN tasks[c] : close_fail(c, eid)
    \/ reader_read
    \/ reader_done
    \/ live_json
    \/ live_json_done

Spec == Init /\ [][Next]_vars

(***************************************************************************)
(* SpecIds: collect_event_ids on the JSON documents of bounded depth.      *)
(***************************************************************************)
K_12345 == <<"1", "2", "3", "4", "5">>

DocKeys == {K_12345, K_eventId, K_event, K_id, K_events}

\* an int that renders as an id, a str of digits that sorts before it though
\* it is the larger number, and a str of four digits
DocScalars ==
    { JInt(12345), JStr(<<"1", "0", "0", "0", "0", "0">>), JStr(<<"1", "2", "3", "4">>) }

\* the values nested at most d deep in which every dict and list holds one item
RECURSIVE DocNodes(_)
DocNodes(d) ==
    IF d = 0 THEN DocScalars
    ELSE LET sub == DocNodes(d - 1)
         IN  sub \cup {JArr(<<x>>) : x \in sub}
                 \cup {JObj(k :> x) : k \in DocKeys, x \in sub}

DocSub == DocNodes(MaxDepth - 1)

\* the documents: a dict of one or two items or a list of one item, the items
\* nested at most MaxDepth - 1 deep
Documents ==
    {JObj(k :> x) : k \in DocKeys, x \in DocSub}
    \cup {JArr(<<x>>) : x \in DocSub}
    \cup {JObj(kk[1] :> x @@ kk[2] :> y) :
            kk \in {q \in DocKeys \X DocKeys : q[1] # q[2]}, x \in DocSub, y \in DocSub}

\* ids before collect_event_ids has returned
NotYet == << <<"?">> >>

InitIds ==
    /\ cfg = [event_concurrency |-> 1, max_events |-> 2, interval_seconds |-> 1]
    /\ pc = "collect_event_ids"
    /\ open_failures = 0
    /\ interval = 0
    /\ sleep_for = 0
    /\ cycle = 0
    /\ lobby = <<>>
    /\ api_failures = 0
    /\ api_json \in Documents
    /\ ids = NotYet
    /\ tasks = [c \in Cycles |-> EmptyDict]
    /\ sem = [c \in Cycles |-> 0]
    /\ events_store = [c \in Cycles |-> EmptyDict]
    /\ live_details = [c \in Cycles |-> EmptyDict]
    /\ payload = NoPayload
    /\ fs = [p \in Paths |-> AbsentFile]
    /\ log_last = "none"
    /\ exit_reason = "none"
    /\ reader_saw = Unread
    /\ api_response = NoResponse
    /\ call = <<>>
    /\ ret = <<>>

\* ids = collect_event_ids(api_json) (line 499)
CollectIds ==
    /\ pc = "collect_event_ids"
    /\ ids = NotYet
    /\ \E iter \in IterOrders(IdBucket(api_json)) : ids' = collect_event_ids(api_json, iter)
    /\ UNCHANGED <<cfg, pc, open_failures, interval, sleep_for, cycle, lobby, api_failures,
                   api_json, payload, fs, log_last, exit_reason, reader_saw, api_response>>
    /\ UNCHANGED workerVars
    /\ UNCHANGED fnVars

NextIds == CollectIds

SpecIds == InitIds /\ [][NextIds]_vars

(***************************************************************************)
(* Properties of the polling loop, checked under Spec.                     *)
(***************************************************************************)
\* the tasks of every cycle, as <<cycle, event id>>
AllTasks == UNION {{c} \X DOMAIN tasks[c] : c \in Cycles}

\* the event fetches, of whatever cycle, that hold an open page
PagesOpen == {ce \in AllTasks : tasks[ce[1]][ce[2]] = "page"}

\* the tasks, of whatever cycle, that have not ended
Running == {ce \in AllTasks : tasks[ce[1]][ce[2]] \notin Finished}

\* C1: with more picked ids than event_concurrency, never do more than
\* event_concurrency fetches hold an open page at once, within a cycle or
\* across cycles, whatever fails.
C1_ConcurrencyCeiling ==
    cfg.max_events > cfg.event_concurrency
        => Cardinality(PagesOpen) <= cfg.event_concurrency

\* C2: whenever a reader reads the destination path it finds no partial
\* document: the file is absent (nothing published yet) or it is the complete
\* payload of a cycle, the running cycle's only once its publication is over.
C2_ReaderSeesWholeDocuments ==
    /\ reader_saw.state # "partial"
    /\ reader_saw.state = "complete" =>
          /\ reader_saw.doc \in 1..cycle
          /\ reader_saw.doc = cycle => pc \in {"sleep", "exited"}

\* C2 happens: a reader reads the previous snapshot whole while the next one
\* is half written
C2_Witness ==
    /\ reader_saw.state = "complete"
    /\ pc = "json_dump"
    /\ fs[CfgTempfile].state = "partial"
    /\ reader_saw.doc = cycle - 1

\* C3: when the payload of a cycle is assembled, every picked id has an entry
\* in events (its snapshot, or the placeholder with only the source URL when a
\* step of its fetch failed, opening and closing the page included), and no
\* task ended with an exception.
C3_FailureYieldsPlaceholder ==
    pc = "atomic_write" =>
        \A eid \in DOMAIN tasks[cycle] :
            /\ tasks[cycle][eid] # "raised"
            /\ eid \in DOMAIN payload.events

\* C4: a worker runs only while its own cycle's gather is awaited: none is
\* left once the payload is assembled and none runs into the next cycle.
C4_WorkersEndBeforePayload ==
    \A ce \in Running : ce[1] = cycle /\ pc = "gather"

\* where main stands inside atomic_write, and inside a cycle before its sleep
WritePcs == {"atomic_write", "json_dump", "replace"}
CyclePcs == {"scrape_lobby", "fetch_eventtype_api", "gather"} \cup WritePcs

\* C5 as claimed: a cycle whose discovery call failed for good ends with its
\* payload published, the payload carrying a non-empty lobby list and empty
\* events and live_details.
C5_DegradedCyclePublishesLobby ==
    (api_failures = FetchApiAttempts /\ pc = "sleep") =>
        /\ fs[CfgOutfile] = CompleteFile(payload)
        /\ payload.fetched_at = cycle
        /\ payload.lobby = lobby /\ payload.lobby # <<>>
        /\ payload.events = EmptyDict
        /\ payload.live_details = EmptyDict

\* C5 as amended: once the discovery call has failed for good the cycle goes on
\* to publication with a payload that carries the extracted lobby list, empty
\* or not, and empty events and live_details; the payload is the destination
\* document when the cycle ends unless a step of atomic_write failed.
C5_DegradedCycleGoesToPublication ==
    api_failures = FetchApiAttempts =>
        /\ pc \in WritePcs \cup {"sleep"}
        /\ payload = Payload(cycle, lobby, EmptyDict, EmptyDict)
        /\ pc = "sleep" =>
              \/ log_last = "Scrape error"
              \/ log_last = "Wrote snapshot" /\ fs[CfgOutfile] = CompleteFile(payload)

\* C5 happens: discovery failed for good and the lobby-only payload is the
\* published snapshot
C5_Witness ==
    /\ api_failures = FetchApiAttempts
    /\ pc = "sleep"
    /\ log_last = "Wrote snapshot"
    /\ payload.lobby # <<>>
    /\ fs[CfgOutfile] = CompleteFile(payload)

\* C6: once the session is open, a step leaves a cycle only into the sleep of
\* max(3, interval_seconds) seconds, whatever raised, and leaves the sleep only
\* into the next cycle; nothing but cancellation ends the loop.
C6_CycleFailureNeverEndsLoop ==
    [][ /\ (pc \in CyclePcs /\ pc' \notin CyclePcs) =>
              \/ pc' = "exited" /\ exit_reason' = "cancelled"
              \/ pc' = "sleep" /\ sleep_for' = Max(IntervalFloor, cfg.interval_seconds)
        /\ (pc = "sleep" /\ pc' # "sleep") =>
              \/ pc' = "exited" /\ exit_reason' = "cancelled"
              \/ pc' = "scrape_lobby" /\ cycle' = cycle + 1
      ]_vars

\* C6 happens: a cycle whose lobby extraction raised was followed by the
\* floor-long sleep and by another cycle, which failed and sleeps as well
C6_Witness ==
    /\ cycle > 1
    /\ pc = "sleep"
    /\ log_last = "Scrape error"
    /\ lobby = <<>>
    /\ fs[CfgOutfile].state = "absent"
    /\ cfg.interval_seconds < IntervalFloor
    /\ sleep_for = IntervalFloor

\* C7: main has ended only because it was cancelled, or because the third
\* attempt of open_context failed, and then no cycle was run and no file was
\* written.
C7_TerminalOnlyByOpenOrCancel ==
    pc = "exited" =>
        \/ exit_reason = "cancelled"
        \/ /\ exit_reason = "open_context"
           /\ open_failures = OpenContextAttempts
           /\ cycle = 0
           /\ \A p \in Paths : fs[p] = AbsentFile

\* C7 happens: the session could not be opened in three attempts
C7_Witness ==
    /\ pc = "exited"
    /\ exit_reason = "open_context"
    /\ open_failures = OpenContextAttempts

\* C8: GET /live.json answers 503 exactly when the scraper's output path holds
\* no snapshot, and otherwise answers the snapshot at that path as it is.
C8_EndpointServesPublishedSnapshot ==
    api_response # NoResponse =>
        /\ api_response.status = 503 <=> fs[CfgOutfile].state = "absent"
        /\ api_response.status = 200 => api_response.body = fs[CfgOutfile]

\* C9: the destination document changes only in the rename that ends a
\* successful atomic_write, and then to the whole payload; a failing step of
\* atomic_write leaves it as it was, is logged and leads to the sleep.
C9_FailedPublicationKeepsSnapshot ==
    [][ /\ fs'[CfgOutfile] # fs[CfgOutfile] =>
              /\ pc = "replace" /\ pc' = "sleep"
              /\ log_last' = "Wrote snapshot"
              /\ fs'[CfgOutfile] = CompleteFile(payload)
        /\ (pc \in WritePcs /\ pc' \notin WritePcs /\ log_last' # "Wrote snapshot"
            /\ pc' # "exited") =>
              /\ fs'[CfgOutfile] = fs[CfgOutfile]
              /\ log_last' = "Scrape error"
              /\ pc' = "sleep" /\ sleep_for' = interval
      ]_vars

\* C9 happens: writing the temporary file failed half way while the snapshot of
\* the cycle before is at the destination
C9_Witness ==
    /\ pc = "sleep"
    /\ log_last = "Scrape error"
    /\ fs[CfgTempfile].state = "partial"
    /\ fs[CfgOutfile] = [state |-> "complete", doc |-> cycle - 1]

(***************************************************************************)
(* Properties of collect_event_ids, checked under SpecIds.                 *)
(***************************************************************************)
\* the occurrences of ids in a document, as <<shape, id>>: "key" a bare object
\* key, "field" the value of a recognized id field, "event" the id of an
\* object nested under "event"
RECURSIVE Occurrences(_)
Occurrences(node) ==
    IF node.t = "dict" THEN
        LET d == node.kids
        IN  {<<"key", k>> : k \in {x \in DOMAIN d : FullMatchDigits5(x)}}
            \cup {<<"field", PyStr(d[k])>> :
                    k \in {x \in DOMAIN d : /\ Lower(x) \in IdFieldNames
                                            /\ d[x].t \in {"str", "int"}
                                            /\ FullMatchDigits5(PyStr(d[x]))}}
            \cup {<<"event", PyStr(InnerId(d[k]))>> :
                    k \in {x \in DOMAIN d : /\ Lower(x) = K_event
                                            /\ d[x].t = "dict"
                                            /\ InnerId(d[x]).t \in {"str", "int"}
                                            /\ FullMatchDigits5(PyStr(InnerId(d[x])))}}
            \cup UNION {Occurrences(d[k]) : k \in DOMAIN d}
    ELSE IF node.t = "list" THEN
        UNION {Occurrences(node.kids[i]) : i \in DOMAIN node.kids}
    ELSE {}

\* the shapes under which id x occurs in the document
ShapesOf(doc, x) == {o[1] : o \in {oc \in Occurrences(doc) : oc[2] = x}}

\* the number of places of the list q that hold x
Count(q, x) == Cardinality({i \in DOMAIN q : q[i] = x})

\* C10: the list collect_event_ids returns is strictly ascending by str
\* comparison, holds only texts of five or more digits, is the same whatever
\* order the set of ids is iterated in, and holds an id exactly once when the
\* document has it under one shape or under several.
C10_SortedUniqueIds ==
    (pc = "collect_event_ids" /\ ids # NotYet) =>
        /\ \A i \in 1..(Len(ids) - 1) : StrLess(ids[i], ids[i + 1])
        /\ \A i \in DOMAIN ids : FullMatchDigits5(ids[i])
        /\ \A iter \in IterOrders(IdBucket(api_json)) :
              collect_event_ids(api_json, iter) = ids
        /\ \A oc \in Occurrences(api_json) : Count(ids, oc[2]) = 1

\* C10 happens: 12345 is a bare key, the value of a recognized field and the id
\* of an object under "event", and the list holds it once, after "100000"
C10_Witness ==
    /\ pc = "collect_event_ids"
    /\ ShapesOf(api_json, K_12345) = {"key", "field", "event"}
    /\ ids = << <<"1", "0", "0", "0", "0", "0">>, K_12345 >>

(***************************************************************************)
(* scrape_lobby (lines 290-337): the rows of the lobby table, in document  *)
(* order, to the list of LobbyRow.  A row of the table is what the queries  *)
(* of the loop find in it: title_el whether it has an ".event-title", dtime *)
(* the text of its ".dtime", text the text of the title cell, live whether  *)
(* it has a live marker.                                                    *)
(***************************************************************************)
\* " ".join(s.split()): runs of whitespace become one space, none at the ends
RECURSIVE JoinSplit(_)
JoinSplit(s) ==
    LET t == LStrip(s, Whitespace)
        n == RunLen(t, Whitespace, FALSE)
        rest == LStrip(SubSeq(t, n + 1, Len(t)), Whitespace)
    IN  IF t = <<>> THEN <<>>
        ELSE IF rest = <<>> THEN SubSeq(t, 1, n)
        ELSE SubSeq(t, 1, n) \o <<" ">> \o JoinSplit(rest)

\* s.startswith(p)
StartsWith(s, p) == Len(s) >= Len(p) /\ SubSeq(s, 1, Len(p)) = p

SepV == <<" ", "v", " ">>

\* the place of the first " v " in s, 0 when there is none
RECURSIVE FindV(_, _)
FindV(s, i) ==
    IF i + 2 > Len(s) THEN 0
    ELSE IF SubSeq(s, i, i + 2) = SepV THEN i
    ELSE FindV(s, i + 1)

\* lines 301-308: the title without its leading time
TitleClean(r) ==
    LET dt == Strip(RStrip(JoinSplit(r.dtime), {"|"}), Whitespace)
        full == JoinSplit(r.text)
        cut == IF dt # <<>> /\ StartsWith(full, dt)
               THEN Strip(LStrip(Strip(SubSeq(full, Len(dt) + 1, Len(full)), Whitespace),
                                 {"|"}), Whitespace)
               ELSE full
    IN  [dt |-> dt, title |-> cut]

\* "continue" of lines 298-299 and 310-311 is not taken
Accepted(r) == r.title_el /\ FindV(TitleClean(r).title, 1) > 0

\* lines 313-329: the LobbyRow of an accepted row, without its prices
LobbyRowOf(r) ==
    LET tc == TitleClean(r)
        i == FindV(tc.title, 1)
        a == Strip(SubSeq(tc.title, 1, i - 1), Whitespace)
        b == Strip(SubSeq(tc.title, i + 3, Len(tc.title)), Whitespace)
    IN  [match_id |-> slugify_title(a \o SepV \o b),
         title |-> tc.dt \o <<" ", "|", " ">> \o a \o SepV \o b,
         teams |-> <<a, b>>,
         starts_at |-> tc.dt,
         status |-> IF r.live THEN "live" ELSE "scheduled"]

\* the loop of lines 296-335 from the rows still to visit and the list so far
RECURSIVE scrape_lobby_loop(_, _, _)
scrape_lobby_loop(rows, out, max_lobby) ==
    IF rows = <<>> THEN out
    ELSE IF ~Accepted(Head(rows)) THEN scrape_lobby_loop(Tail(rows), out, max_lobby)
    ELSE LET out2 == Append(out, LobbyRowOf(Head(rows)))
         IN  IF Len(out2) >= max_lobby THEN out2
             ELSE scrape_lobby_loop(Tail(rows), out2, max_lobby)

scrape_lobby(rows, max_lobby) == scrape_lobby_loop(rows, <<>>, max_lobby)

\* the rows a lobby table is made of: a row without a title cell, a section
\* header, a match, a live match with its time
TableRows ==
    { [title_el |-> FALSE, dtime |-> <<>>, text |-> <<>>, live |-> FALSE],
      [title_el |-> TRUE, dtime |-> <<>>, text |-> <<"T", "2", "0">>, live |-> FALSE],
      [title_el |-> TRUE, dtime |-> <<>>, text |-> <<"A", " ", " ", "v", " ", "B">>,
       live |-> FALSE],
      [title_el |-> TRUE, dtime |-> <<"9", " ", "|">>,
       text |-> <<"9", " ", "|", " ", "C", " ", "v", " ", "D">>, live |-> TRUE] }

\* the sequences of at most n elements of S
SeqUpTo(S, n) == UNION {[1..k -> S] : k \in 0..n}

\* the tables and the values of cfg["scrape"]["max_lobby"]
LobbyCalls == {[rows |-> q, max_lobby |-> n] : q \in SeqUpTo(TableRows, MaxRows), n \in 0..MaxRows}

(***************************************************************************)
(* Prices.  A price is a number of hundredths; the texts of the model have *)
(* at most two decimals.                                                   *)
(***************************************************************************)
\* None as the value of an Optional[float]
NoPrice == -1

\* txt.replace(",", ".")
CommaToDot(s) == [i \in DOMAIN s |-> IF s[i] = "," THEN "." ELSE s[i]]

\* int() of a text of digits
RECURSIVE DigitsToNat(_)
DigitsToNat(s) ==
    IF s = <<>> THEN 0
    ELSE 10 * DigitsToNat(SubSeq(s, 1, Len(s) - 1))
         + ((CHOOSE i \in DOMAIN Digits : Digits[i] = s[Len(s)]) - 1)

\* first_float (lines 118-124): the first match of [0-9]+(?:\.[0-9]+)? in the
\* text, as a float
first_float(txt) ==
    IF txt = <<>> THEN NoPrice
    ELSE LET t == CommaToDot(txt)
             skip == RunLen(t, Range(Digits), FALSE)
             u == SubSeq(t, skip + 1, Len(t))
             n == RunLen(u, Range(Digits), TRUE)
             w == SubSeq(u, n + 1, Len(u))
             m == IF w # <<>> /\ Head(w) = "." THEN RunLen(Tail(w), Range(Digits), TRUE) ELSE 0
             frac == SubSeq(w, 2, 1 + Min(m, 2))
         IN  IF n = 0 THEN NoPrice
             ELSE 100 * DigitsToNat(SubSeq(u, 1, n))
                  + (IF Len(frac) = 1 THEN 10 * DigitsToNat(frac) ELSE DigitsToNat(frac))

\* max(..., default=None) and min(..., default=None) of the non-null prices
MaxPrice(S) == IF S = {} THEN NoPrice ELSE CHOOSE x \in S : \A y \in S : y <= x
MinPrice(S) == IF S = {} THEN NoPrice ELSE CHOOSE x \in S : \A y \in S : x <= y

(***************************************************************************)
(* _read_ladder_cells (lines 343-368).  back_as and lay_as are the anchors *)
(* the two queries find, each with the text of its "div" and of its size.  *)
(***************************************************************************)
\* lines 352-359: (v, sz) of an anchor
PriceAndSize(a) == <<first_float(a.div), a.small>>

NoEntry == <<NoPrice, <<>> >>

\* lines 361-364: the steps i..n of the ladder
RECURSIVE LadderFrom(_, _, _, _)
LadderFrom(backs, lays, i, n) ==
    IF i > n THEN <<>>
    ELSE LET b == IF i <= Len(backs) THEN backs[i] ELSE NoEntry
             l == IF i <= Len(lays) THEN lays[i] ELSE NoEntry
         IN  <<[back |-> b[1], back_size |-> b[2], lay |-> l[1], lay_size |-> l[2]]>>
             \o LadderFrom(backs, lays, i + 1, n)

\* Mutation of read_ladder_cells: the two sides are zipped, the ladder ends with the
\* shorter one.
read_ladder_cells_zip(back_as, lay_as) ==
    LET backs == [i \in DOMAIN back_as |-> PriceAndSize(back_as[i])]
        lays == [i \in DOMAIN lay_as |-> PriceAndSize(lay_as[i])]
    IN  [ladder |-> LadderFrom(backs, lays, 1, Min(Len(backs), Len(lays))),
         best_back |-> MaxPrice({backs[i][1] : i \in DOMAIN backs} \ {NoPrice}),
         best_lay |-> MinPrice({lays[i][1] : i \in DOMAIN lays} \ {NoPrice})]

read_ladder_cells(back_as, lay_as) ==
    LET backs == [i \in DOMAIN back_as |-> PriceAndSize(back_as[i])]
        lays == [i \in DOMAIN lay_as |-> PriceAndSize(lay_as[i])]
    IN  [ladder |-> LadderFrom(backs, lays, 1, Max(Len(backs), Len(lays))),
         best_back |-> MaxPrice({backs[i][1] : i \in DOMAIN backs} \ {NoPrice}),
         best_lay |-> MinPrice({lays[i][1] : i \in DOMAIN lays} \ {NoPrice})]

\* the anchors of a market row: a price with its size, a higher price without
\* size, an anchor without a number
Anchors ==
    { [div |-> <<"1", ".", "9">>, small |-> <<"5", "0">>],
      [div |-> <<"2">>, small |-> <<>>],
      [div |-> <<"-">>, small |-> <<>>] }

LadderCalls ==
    {[back_as |-> b, lay_as |-> l] : b \in SeqUpTo(Anchors, MaxSteps),
                                     l \in SeqUpTo(Anchors, MaxSteps)}

(***************************************************************************)
(* _best_from_cell (lines 276-288).  backs and lays are the texts of the   *)
(* elements the two queries find, in the order they find them.             *)
(***************************************************************************)
\* lines 277-281: every non-null value replaces the one before
RECURSIVE LastPrice(_, _)
LastPrice(texts, back) ==
    IF texts = <<>> THEN back
    ELSE LET v == first_float(Head(texts))
         IN  LastPrice(Tail(texts), IF v # NoPrice THEN v ELSE back)

\* lines 282-287: the loop ends at the first non-null value
RECURSIVE FirstPrice(_)
FirstPrice(texts) ==
    IF texts = <<>> THEN NoPrice
    ELSE LET v == first_float(Head(texts))
         IN  IF v # NoPrice THEN v ELSE FirstPrice(Tail(texts))

\* Mutation of best_from_cell: the best back is the highest back, the best lay the
\* lowest lay.
best_from_cell_by_price(backs, lays) ==
    [back |-> MaxPrice({first_float(backs[i]) : i \in DOMAIN backs} \ {NoPrice}),
     lay |-> MinPrice({first_float(lays[i]) : i \in DOMAIN lays} \ {NoPrice})]

best_from_cell(backs, lays) ==
    [back |-> LastPrice(backs, NoPrice), lay |-> FirstPrice(lays)]

\* the texts of the priced entries of a cell: no number, and two prices
CellTexts ==
    { <<>>, <<"1", ".", "9", "5">>, <<"2", ",", "0">> }

CellCalls ==
    {[backs |-> b, lays |-> l] : b \in SeqUpTo(CellTexts, MaxEntries),
                                 l \in SeqUpTo(CellTexts, MaxEntries)}

(***************************************************************************)
(* SpecFns: scrape_lobby, slugify_title, _read_ladder_cells and            *)
(* _best_from_cell, each applied on its own to bounded arguments.  pc is   *)
(* the function that is called and, once it has returned, "<name>.return". *)
(***************************************************************************)
\* the characters of the titles: whitespace, the dash, a character the slug
\* drops and a character it keeps
TitleChars == {" ", "-", ".", "A"}

Titles == SeqUpTo(TitleChars, MaxLen)

\* the two texts differ at most in the amount of whitespace at the ends and
\* between the same words
SameUpToSpacing(s, t) == JoinSplit(s) = JoinSplit(t)

InitFns ==
    /\ \/ pc = "scrape_lobby" /\ call \in LobbyCalls
       \/ pc = "slugify_title" /\ call \in Titles
       \/ pc = "read_ladder_cells" /\ call \in LadderCalls
       \/ pc = "best_from_cell" /\ call \in CellCalls
    /\ ret = <<>>
    /\ cfg = [event_concurrency |-> 1, max_events |-> 2, interval_seconds |-> 1]
    /\ open_failures = 0
    /\ interval = 0
    /\ sleep_for = 0
    /\ cycle = 0
    /\ lobby = <<>>
    /\ api_failures = 0
    /\ api_json = JNull
    /\ ids = <<>>
    /\ tasks = [c \in Cycles |-> EmptyDict]
    /\ sem = [c \in Cycles |-> 0]
    /\ events_store = [c \in Cycles |-> EmptyDict]
    /\ live_details = [c \in Cycles |-> EmptyDict]
    /\ payload = NoPayload
    /\ fs = [p \in Paths |-> AbsentFile]
    /\ log_last = "none"
    /\ exit_reason = "none"
    /\ reader_saw = Unread
    /\ api_response = NoResponse

fnRest == <<cfg, open_failures, interval, sleep_for, cycle, lobby, api_failures,
            api_json, ids, tasks, sem, events_store, live_details, payload, fs,
            log_last, exit_reason, reader_saw, api_response>>

\* rows = scrape_lobby(page, cfg) on the table call.rows
ScrapeLobby ==
    /\ pc = "scrape_lobby"
    /\ ret' = scrape_lobby(call.rows, call.max_lobby)
    /\ pc' = "scrape_lobby.return"
    /\ UNCHANGED <<call, fnRest>>

\* slug = slugify_title(call)
SlugifyTitle ==
    /\ pc = "slugify_title"
    /\ ret' = slugify_title(call)
    /\ pc' = "slugify_title.return"
    /\ UNCHANGED <<call, fnRest>>

\* slugify_title is applied to its own result
Reslugify ==
    /\ pc = "slugify_title.return"
    /\ call' = ret
    /\ ret' = slugify_title(ret)
    /\ UNCHANGED <<pc, fnRest>>

\* slugify_title is applied to the title with other amounts of whitespace
Respace ==
    /\ pc = "slugify_title.return"
    /\ \E t \in Titles :
         /\ t # call
         /\ SameUpToSpacing(t, call)
         /\ call' = t
         /\ ret' = slugify_title(t)
    /\ UNCHANGED <<pc, fnRest>>

\* ladder, best_back, best_lay = _read_ladder_cells(tr)
ReadLadderCells ==
    /\ pc = "read_ladder_cells"
    /\ ret' = read_ladder_cells(call.back_as, call.lay_as)
    /\ pc' = "read_ladder_cells.return"
    /\ UNCHANGED <<call, fnRest>>

\* back, lay = _best_from_cell(cell)
BestFromCell ==
    /\ pc = "best_from_cell"
    /\ ret' = best_from_cell(call.backs, call.lays)
    /\ pc' = "best_from_cell.return"
    /\ UNCHANGED <<call, fnRest>>

NextFns ==
    \/ ScrapeLobby
    \/ SlugifyTitle
    \/ Reslugify
    \/ Respace
    \/ ReadLadderCells
    \/ BestFromCell

SpecFns == InitFns /\ [][NextFns]_vars

(***************************************************************************)
(* Properties of the functions, checked under SpecFns, and further         *)
(* properties of the polling loop, checked under Spec.                     *)
(***************************************************************************)
\* the LobbyRow of every accepted row of the table, in document order
AcceptedRows(rows) ==
    LET acc == SelectSeq(rows, Accepted)
    IN  [i \in DOMAIN acc |-> LobbyRowOf(acc[i])]

\* C11: with a maximum of N >= 0, scrape_lobby returns exactly the first
\* min(accepted rows, N) accepted rows of the table, in document order (as
\* run_once fetches the first min(ids, max_events) ids of the sorted list).
C11_TruncationKeepsFirstN ==
    pc = "scrape_lobby.return" =>
        LET acc == AcceptedRows(call.rows)
        IN  ret = SubSeq(acc, 1, Min(Len(acc), call.max_lobby))

\* the match_id of the rows of the lobby
LobbySlugs(rows) == {rows[i].match_id : i \in DOMAIN rows}

\* the entries of ld are those of events of ev, each under the slug of its own
\* page title; an event whose slug is not m is not the entry under m, and an
\* event without title is under no key
JoinedByOwnSlug(ev, ld, slugs) ==
    /\ \A key \in DOMAIN ld :
          /\ ld[key].event_id \in DOMAIN ev
          /\ ld[key].title = ev[ld[key].event_id].title
          /\ ld[key].title # None
          /\ key = TitleKey[ld[key].title]
    /\ \A eid \in DOMAIN ev :
          /\ \A m \in slugs :
                TitleKey[ev[eid].title] # m => (m \notin DOMAIN ld \/ ld[m].event_id # eid)
          /\ ev[eid].title = None => \A key \in DOMAIN ld : ld[key].event_id # eid

\* C12: in the maps of every cycle and in the payload, an event is in
\* live_details only under the slug of its own page title: not under the
\* lobby row's match_id when that differs, and under no key when it has no
\* title (as every placeholder); it is in events all the same.
C12_JoinBySlugOfOwnTitle ==
    /\ \A c \in Cycles :
          JoinedByOwnSlug(events_store[c], live_details[c], LobbySlugs(lobby))
    /\ JoinedByOwnSlug(payload.events, payload.live_details, LobbySlugs(payload.lobby))

\* C12 happens: the lobby has the match as A-v-B, an event page names it
\* "Aa v B - X" and is joined under Aa-v-B only, another event has no title
C12_Witness ==
    /\ pc = "atomic_write"
    /\ LobbySlugs(payload.lobby) = {slugify_title(T_A_v_B)}
    /\ DOMAIN payload.live_details = {EventKey(T_Aa_v_B)}
    /\ \E e1, e2 \in DOMAIN payload.events :
          /\ payload.events[e1].title = T_Aa_v_B
          /\ payload.events[e2].title = None

\* C13: the slug of a title stays the same when slugify_title is applied to
\* the slug itself, and when it is applied to a title that differs only in
\* the amount of leading, trailing or interior whitespace.
C13_SlugIdempotentAndSpacingBlind ==
    [][ (pc = "slugify_title.return" /\ pc' = "slugify_title.return"
         /\ (call' = ret \/ SameUpToSpacing(call', call)))
        => ret' = ret ]_vars

\* C13 happens: a title with two spaces between its words has the slug A-A
C13_Witness ==
    /\ pc = "slugify_title.return"
    /\ ret = <<"A", "-", "A">>
    /\ call = <<"A", " ", " ", "A">>

\* the non-null prices of the anchors
PricesOf(as) == {first_float(as[i].div) : i \in DOMAIN as} \ {NoPrice}

\* C14: for a row with b back anchors and l lay anchors the ladder has
\* max(b, l) steps; step i holds the price and size of the i-th back anchor
\* and of the i-th lay anchor, a side that has no i-th anchor being null and
\* empty; best_back is the highest non-null back price and best_lay the
\* lowest non-null lay price, null when there is none.
C14_LadderPairedByPosition ==
    pc = "read_ladder_cells.return" =>
        LET b == Len(call.back_as)
            l == Len(call.lay_as)
        IN  /\ Len(ret.ladder) = Max(b, l)
            /\ \A i \in DOMAIN ret.ladder :
                  /\ i <= b => /\ ret.ladder[i].back = first_float(call.back_as[i].div)
                               /\ ret.ladder[i].back_size = call.back_as[i].small
                  /\ i > b => ret.ladder[i].back = NoPrice /\ ret.ladder[i].back_size = <<>>
                  /\ i <= l => /\ ret.ladder[i].lay = first_float(call.lay_as[i].div)
                               /\ ret.ladder[i].lay_size = call.lay_as[i].small
                  /\ i > l => ret.ladder[i].lay = NoPrice /\ ret.ladder[i].lay_size = <<>>
            /\ IF PricesOf(call.back_as) = {} THEN ret.best_back = NoPrice
               ELSE /\ ret.best_back \in PricesOf(call.back_as)
                    /\ \A x \in PricesOf(call.back_as) : x <= ret.best_back
            /\ IF PricesOf(call.lay_as) = {} THEN ret.best_lay = NoPrice
               ELSE /\ ret.best_lay \in PricesOf(call.lay_as)
                    /\ \A x \in PricesOf(call.lay_as) : ret.best_lay <= x

\* C14 happens: three back anchors and two lay anchors give three steps, the
\* third without lay side; the best back is 2 and the best lay 1.9 though
\* neither is the first of its side
C14_Witness ==
    /\ pc = "read_ladder_cells.return"
    /\ Len(call.back_as) = 3 /\ Len(call.lay_as) = 2
    /\ Len(ret.ladder) = 3
    /\ ret.ladder[1].back = 190 /\ ret.ladder[2].back = 200 /\ ret.ladder[3].back = NoPrice
    /\ ret.ladder[1].lay = 200 /\ ret.ladder[2].lay = 190
    /\ ret.ladder[3].lay = NoPrice /\ ret.ladder[3].lay_size = <<>>
    /\ ret.best_back = 200
    /\ ret.best_lay = 190

\* the places of texts that hold a number
Priced(texts) == {i \in DOMAIN texts : first_float(texts[i]) # NoPrice}

\* C15: the best back of a lobby cell is the value of the last priced entry
\* of its back side and the best lay the value of the first priced entry of
\* its lay side, whatever the values; null when the side has no priced entry.
C15_LastBackFirstLay ==
    pc = "best_from_cell.return" =>
        /\ IF Priced(call.backs) = {} THEN ret.back = NoPrice
           ELSE \E i \in Priced(call.backs) :
                   /\ \A j \in Priced(call.backs) : j <= i
                   /\ ret.back = first_float(call.backs[i])
        /\ IF Priced(call.lays) = {} THEN ret.lay = NoPrice
           ELSE \E i \in Priced(call.lays) :
                   /\ \A j \in Priced(call.lays) : i <= j
                   /\ ret.lay = first_float(call.lays[i])

\* C15 happens: backs 2.0, 1.95 and an entry without number give the best
\* back 1.95, the last priced one though not the highest; lays without
\* number, 2.0, 1.95 give the best lay 2.0, the first priced one though not
\* the lowest
C15_Witness ==
    /\ pc = "best_from_cell.return"
    /\ call.backs = << <<"2", ",", "0">>, <<"1", ".", "9", "5">>, <<>> >>
    /\ call.lays = << <<>>, <<"2", ",", "0">>, <<"1", ".", "9", "5">> >>
    /\ ret = [back |-> 195, lay |-> 200]

\* C16: main is cancelled only between cycles: a cycle in flight finishes,
\* its payload published, before the loop stops.
C16_CancellationWaitsForCycle ==
    [][ (pc # "exited" /\ pc' = "exited" /\ exit_reason' = "cancelled")
        => pc \notin CyclePcs ]_vars

\* C17: an entry of the events map or of the live_details map of a cycle,
\* once written by a worker, is not written again by another.
C17_SingleWriterPerKey ==
    [][ \A c \in Cycles :
          /\ \A eid \in DOMAIN events_store[c] \cap DOMAIN events_store'[c] :
                events_store'[c][eid] = events_store[c][eid]
          /\ \A key \in DOMAIN live_details[c] \cap DOMAIN live_details'[c] :
                live_details'[c][key] = live_details[c][key]
      ]_vars

\* C18: when discovery succeeded, the payload is assembled with exactly one
\* entry of events for every picked id.
C18_OneSnapshotPerPickedId ==
    (pc = "atomic_write" /\ api_json # JNull) =>
        DOMAIN payload.events = Range(Picked(ids, cfg.max_events))

\* the tasks of cycle c that hold a slot of its semaphore
SlotHolders(c) == {eid \in DOMAIN tasks[c] : tasks[c][eid] \in {"new_page", "page"}}

\* C19: a fetch holds an open page only while it holds a slot, whatever way
\* its try is left: the free slots and the fetches between "async with sem"
\* and the end of page.close() add up to event_concurrency, so that with all
\* workers of a cycle finished no page is open and every slot is free.
C19_PageClosedBeforeSlotFreed ==
    \A c \in Cycles :
        DOMAIN tasks[c] # {} =>
            /\ sem[c] + Cardinality(SlotHolders(c)) = cfg.event_concurrency
            /\ {eid \in DOMAIN tasks[c] : tasks[c][eid] = "page"} \subseteq SlotHolders(c)
            /\ AllFinished(tasks[c]) =>
                  sem[c] = cfg.event_concurrency /\ SlotHolders(c) = {}

\* C19 happens: both fetches of a cycle are over, one with the placeholder of
\* a failed try and one with a titled snapshot, and both slots are free
C19_Witness ==
    /\ pc = "gather"
    /\ Cardinality(DOMAIN tasks[cycle]) = 2
    /\ \A eid \in DOMAIN tasks[cycle] : tasks[cycle][eid] = "done"
    /\ \E e1, e2 \in DOMAIN events_store[cycle] :
          /\ events_store[cycle][e1].title = None
          /\ events_store[cycle][e2].title = T_A_v_B
    /\ cfg.event_concurrency = 2
    /\ sem[cycle] = 2

\* C20: the discovery fetch fails at most FetchApiAttempts = 4 times in a
\* cycle; a failure before the fourth is followed by another attempt, the
\* fourth by the lobby-only payload and no further attempt; a success goes on
\* to the collected ids and their workers; a new cycle starts with no failure
\* counted.
C20_DiscoveryAttemptsBounded ==
    [][ /\ api_failures' \in 0..FetchApiAttempts
        /\ api_failures' > api_failures =>
              /\ pc = "fetch_eventtype_api"
              /\ api_failures' = api_failures + 1
              /\ api_failures' < FetchApiAttempts => pc' = "fetch_eventtype_api"
              /\ api_failures' = FetchApiAttempts =>
                    /\ pc' = "atomic_write"
                    /\ payload' = Payload(cycle, lobby, EmptyDict, EmptyDict)
        /\ (pc = "fetch_eventtype_api" /\ pc' = "gather") =>
              /\ api_failures < FetchApiAttempts
              /\ DOMAIN tasks'[cycle] = Range(Picked(ids', cfg.max_events))
        /\ api_failures = FetchApiAttempts => pc # "fetch_eventtype_api"
        /\ cycle' # cycle => api_failures' = 0 /\ pc' = "scrape_lobby"
      ]_vars

\* C20 happens: the second cycle, as the first, has four failed attempts of
\* its own behind it and its lobby-only payload is published
C20_Witness ==
    /\ cycle = 2
    /\ api_failures = FetchApiAttempts
    /\ pc = "sleep"
    /\ log_last = "Wrote snapshot"
    /\ fs[CfgOutfile] = [state |-> "complete", doc |-> 2]

(***************************************************************************)
(* Completeness of the discovery, checked under SpecIds.                   *)
(***************************************************************************)
\* the node and every value nested in it, at any depth
RECURSIVE SubNodes(_)
SubNodes(node) ==
    {node} \cup
    ( IF node.t = "dict"
      THEN UNION {SubNodes(node.kids[k]) : k \in DOMAIN node.kids}
      ELSE IF node.t = "list"
      THEN UNION {SubNodes(node.kids[i]) : i \in DOMAIN node.kids}
      ELSE {} )

\* v is a str or an int whose text is five or more digits
RendersAsId(v) == v.t \in {"str", "int"} /\ FullMatchDigits5(PyStr(v))

\* C21: the list collect_event_ids returns holds every object key, at any
\* depth inside objects and arrays, that is five or more digits; every str or
\* int value of five or more digits stored at any depth under a key that,
\* lower-cased, is one of the recognized id-field names; and with them the
\* id, eventId or event_id field of an object stored under the key "event".
C21_DiscoveryComplete ==
    (pc = "collect_event_ids" /\ ids # NotYet) =>
        \A n \in {x \in SubNodes(api_json) : x.t = "dict"} :
            \A k \in DOMAIN n.kids :
                /\ FullMatchDigits5(k) => k \in Range(ids)
                /\ (Lower(k) \in IdFieldNames /\ RendersAsId(n.kids[k]))
                      => PyStr(n.kids[k]) \in Range(ids)
                /\ (k = K_event /\ n.kids[k].t = "dict") =>
                      \A f \in {K_id, K_eventId, K_event_id} \cap DOMAIN n.kids[k].kids :
                          RendersAsId(n.kids[k].kids[f])
                              => PyStr(n.kids[k].kids[f]) \in Range(ids)

\* C21 happens: the str 100000 is the eventId of the object under "event",
\* the key 12345 is in the object nested under "events", and the list
\* returned holds both
C21_Witness ==
    /\ pc = "collect_event_ids"
    /\ api_json = JObj(K_event :> JObj(K_eventId :> JStr(<<"1", "0", "0", "0", "0", "0">>))
                       @@ K_events :> JObj(K_12345 :> JStr(<<"1", "2", "3", "4">>)))
    /\ ids = << <<"1", "0", "0", "0", "0", "0">>, K_12345 >>

(***************************************************************************)
(* The payload, checked under Spec.                                        *)
(***************************************************************************)
\* the keys that are slugs: slugify_title leaves them as they are
Slugs == {k \in Range(TitleKey) : slugify_title(k) = k}

\* every key of ld is a non-empty slug, and the entry under it names an event
\* of ev and has that event's title, match_time, fancy, sessions and result
ConsistentWithEvents(ev, ld) ==
    \A key \in DOMAIN ld :
        /\ key \in Slugs \ {<<>>}
        /\ ld[key].event_id \in DOMAIN ev
        /\ LET e == ev[ld[key].event_id]
           IN  /\ ld[key].title = e.title
               /\ ld[key].match_time = e.match_time
               /\ ld[key].fancy = e.fancy
               /\ ld[key].sessions = e.sessions
               /\ ld[key].result = e.result

\* C22: in every payload run_once assembles, live_details is consistent with
\* events: each key is a non-empty slug, the event_id of its entry is a key of
\* events, and the entry's title, match_time, fancy, sessions and result are
\* those of events[event_id].
C22_LiveDetailsConsistentWithEvents ==
    ConsistentWithEvents(payload.events, payload.live_details)

\* C22 happens: two events of the payload show the match A v B, one with its
\* time and one with a fancy market; the entry under A-v-B is the second one
C22_Witness ==
    /\ pc = "atomic_write"
    /\ DOMAIN payload.live_details = {EventKey(T_A_v_B)}
    /\ \E e1, e2 \in DOMAIN payload.events :
          /\ payload.events[e1].match_time # None
          /\ payload.events[e2].fancy = <<FancyRow>>
          /\ payload.live_details[EventKey(T_A_v_B)].event_id = e2

\* C23: the discovery fetch of a cycle is entered only by scrape_lobby
\* returning its rows, and takes its steps only after that.  When scrape_lobby
\* raises, the step leads to main's sleep with "Scrape error" logged (or out of
\* the process, when it was cancelled): no discovery response, no attempt and
\* no worker of this cycle exists, no payload is assembled and no file is
\* touched; the files stay as they are until the next cycle begins.  Workers
\* an earlier cycle left running are not this cycle's.
C23_LobbyBeforeDiscovery ==
    [][ /\ (pc # "fetch_eventtype_api" /\ pc' = "fetch_eventtype_api") =>
              /\ pc = "scrape_lobby"
              /\ lobby' \in LobbyResults
              /\ cycle' = cycle
        /\ (api_failures' > api_failures \/ (api_json' # api_json /\ api_json' # JNull)) =>
              pc = "fetch_eventtype_api"
        /\ (pc = "scrape_lobby" /\ pc' \notin {"scrape_lobby", "fetch_eventtype_api"}) =>
              /\ \/ pc' = "sleep" /\ log_last' = "Scrape error"
                 \/ pc' = "exited" /\ exit_reason' = "cancelled"
              /\ api_json' = JNull /\ api_failures' = 0 /\ ids' = <<>>
              /\ tasks'[cycle] = EmptyDict
              /\ payload' = NoPayload
              /\ fs' = fs
        /\ (pc = "sleep" /\ payload = NoPayload) =>
              /\ fs' = fs
              /\ api_json = JNull /\ api_failures = 0 /\ tasks[cycle] = EmptyDict
      ]_vars

\* C23 happens: the lobby extraction of the second cycle raised; main sleeps,
\* nothing was fetched and the snapshot of the first cycle is at the destination
C23_Witness ==
    /\ cycle = 2
    /\ pc = "sleep"
    /\ log_last = "Scrape error"
    /\ payload = NoPayload
    /\ api_json = JNull
    /\ tasks[cycle] = EmptyDict
    /\ fs[CfgOutfile] = [state |-> "complete", doc |-> 1]

(***************************************************************************)
(* SpecLive: the scraper on its own, neither cancelled nor observed, with  *)
(* the scheduling the event loop gives: a task that is ready to run is     *)
(* run, a call that was made returns or raises, and the code between two   *)
(* awaits runs to its end.  Nothing makes the lobby, the discovery         *)
(* source or the sleep answer.                                             *)
(***************************************************************************)
NextLive ==
    \/ open_context_ok
    \/ open_context_fail
    \/ scrape_lobby_ok
    \/ scrape_lobby_fail
    \/ fetch_eventtype_api_ok
    \/ fetch_eventtype_api_fail
    \/ gather_return
    \/ gather_raise
    \/ makedirs_fail
    \/ open_tmp_fail
    \/ open_tmp_ok
    \/ json_dump_fail
    \/ json_dump_ok
    \/ replace_fail
    \/ replace_ok
    \/ sleep_done
    \/ \E c \in Cycles : \E eid \in DOMAIN tasks[c] : acquire(c, eid)
    \/ \E c \in Cycles : \E eid \in DOMAIN tasks[c] : new_page_ok(c, eid)
    \/ \E c \in Cycles : \E eid \in DOMAIN tasks[c] : new_page_fail(c, eid)
    \/ \E c \in Cycles : \E eid \in DOMAIN tasks[c] : try_ok(c, eid)
    \/ \E c \in Cycles : \E eid \in DOMAIN tasks[c] : try_fail(c, eid)
    \/ \E c \in Cycles : \E eid \in DOMAIN tasks[c] : close_fail(c, eid)

\* a worker waiting in "async with sem" is woken when a slot is free
\* (asyncio.Semaphore), context.new_page() returns or raises, and the event
\* fetch returns or raises
WorkerFairness ==
    /\ WF_vars(\E c \in Cycles : \E eid \in DOMAIN tasks[c] : acquire(c, eid))
    /\ WF_vars(\E c \in Cycles : \E eid \in DOMAIN tasks[c] :
                  new_page_ok(c, eid) \/ new_page_fail(c, eid))
    /\ WF_vars(\E c \in Cycles : \E eid \in DOMAIN tasks[c] :
                  try_ok(c, eid) \/ try_fail(c, eid) \/ close_fail(c, eid))

\* main is resumed when gather has its result, and atomic_write, which has no
\* await, ends
MainFairness ==
    /\ WF_vars(gather_return \/ gather_raise)
    /\ WF_vars(makedirs_fail \/ open_tmp_fail \/ open_tmp_ok \/ json_dump_fail
               \/ json_dump_ok \/ replace_fail \/ replace_ok)

SpecLive == Init /\ [][NextLive]_vars /\ MainFairness /\ WorkerFairness

\* a worker of some cycle waits for a slot
Queued == \E c \in Cycles : \E eid \in DOMAIN tasks[c] : tasks[c][eid] = "queued"

\* C24: with a ceiling of one slot or more and whatever number of picked ids,
\* when every event fetch returns or raises, no worker waits for a slot for
\* ever: whenever workers wait, a time comes when every one of them has got
\* its slot; and a cycle that awaits its workers in gather gets to the
\* assembly of its payload.
C24_OrchestrationTerminates ==
    /\ Queued ~> ~Queued
    /\ (pc = "gather") ~> (pc = "atomic_write" /\ payload.fetched_at = cycle)

\* C24 happens: two workers shared the one slot, both have returned, the slot
\* is free and the payload with their two events is assembled
C24_Witness ==
    /\ pc = "atomic_write"
    /\ cfg.event_concurrency = 1
    /\ sem[cycle] = 1
    /\ Cardinality(DOMAIN tasks[cycle]) = 2
    /\ AllFinished(tasks[cycle])
    /\ Cardinality(DOMAIN payload.events) = 2

=============================================================================
